---------------------------- MODULE Spec2Model ----------------------------
(***************************************************************************)
(* Model of the Trimui Smart Pro input daemon: the FF_RUMBLE effect        *)
(* manager (src/src/rumble/rumble.c), the rumble GPIO line                 *)
(* (src/src/gpio/gpio.c) and the controller main loop                      *)
(* (src/src/controller/controller.c).                                      *)
(*                                                                         *)
(* Conventions.  A struct timespec is a record [tv_sec, tv_nsec].  The     *)
(* rumble_state_t struct is the record held by the variable rumble, the    *)
(* static of gpio_set_rumble and the sysfs value of the line are the       *)
(* record held by gpio.  The functions of rumble.c are operators from the  *)
(* state before the call to the state after it; the actions apply them.    *)
(* Writes to the sysfs value file are taken to succeed.                    *)
(***************************************************************************)
EXTENDS Integers, Sequences, FiniteSets, TLC

VARIABLES
    rumble,     \* rumble_state_t: slots, rumble_active, stop_time, gain
    gpio,       \* gpio.c: current_state (static of gpio_set_rumble), line (sysfs value)
    now,        \* CLOCK_MONOTONIC, as timespec_now reads it
    driving,    \* history: id of the effect whose play last started the motor, -1 when idle
    last,       \* history: the last engine call, its arguments, result and pre-state
    upl,        \* history: the pool before the last successful upload, until another call
    pc,         \* run_controller: where the main loop stands
    keep_running, \* the flag handle_signal clears
    pads,       \* ctl.left, ctl.right: fd, calibration, last_buttons, last_x, last_y
    hat,        \* ctl.hat_x, ctl.hat_y
    revents,    \* POLLIN of pfds[0..2] after poll
    sent_event, \* the flag of line 600
    reads,      \* reads made so far by the drain loop under way
    device,     \* the uinput device: "created" or "destroyed"
    handles,    \* the sides whose serial handle is open
    exit_cause, \* history: why the main loop was left
    iter,       \* history: the events, markers and sides of the current iteration,
                \* and the last value the device was given for each code
    probe       \* history: the last sample given to an input function and its result

evars == <<rumble, gpio, now, driving, last, upl>>

lvars == <<pc, keep_running, pads, hat, revents, sent_event, reads, device,
           handles, exit_cause, iter, probe>>

vars == <<rumble, gpio, now, driving, last, upl, pc, keep_running, pads, hat,
          revents, sent_event, reads, device, handles, exit_cause, iter, probe>>

-----------------------------------------------------------------------------
(* Program constants *)

RUMBLE_MAX_EFFECTS == 8

\* ff_effect.type values; only FF_RUMBLE is told apart from the others
FF_RUMBLE == "FF_RUMBLE"

FF_PERIODIC == "FF_PERIODIC"

EINVAL == 22

ENOSPC == 28

GAIN_MAX == 65535

NSEC_PER_SEC == 1000000000

SlotIds == 0 .. (RUMBLE_MAX_EFFECTS - 1)

-----------------------------------------------------------------------------
(* 32-bit unsigned arithmetic.  An unsigned int is kept as two 16-bit      *)
(* halves [hi, lo] so that no intermediate value leaves the range of the   *)
(* model checker's integers; the value is hi * 65536 + lo.                 *)

U32(hi, lo) == [hi |-> hi, lo |-> lo]

U32OfInt(n) == U32(n \div 65536, n % 65536)

\* (uint16 a) * (unsigned int b), truncated to 32 bits as C's unsigned multiply does
MulU16U32(a, b) ==
    LET a0 == a % 256
        a1 == a \div 256
        p0 == a0 * b.lo                       \* < 2^24
        p1 == a1 * b.lo                       \* < 2^24, weight 2^8
        low == p0 + (p1 % 256) * 256          \* < 2^25
        carry == (low \div 65536) + (p1 \div 256)
        h0 == a0 * b.hi
        h1 == a1 * b.hi
        high == (h0 + (h1 % 256) * 256) % 65536
    IN  U32((carry + high) % 65536, low % 65536)

\* ms / 1000 and ms % 1000 of an unsigned int (65536 = 65 * 1000 + 536)
U32DivThousand(u) == u.hi * 65 + ((u.hi * 536 + u.lo) \div 1000)

U32ModThousand(u) == (u.hi * 536 + u.lo) % 1000

-----------------------------------------------------------------------------
(* rumble.c: time helpers *)

Timespec(s, ns) == [tv_sec |-> s, tv_nsec |-> ns]

timespec_add_ms(ts, ms) ==
    LET sec == ts.tv_sec + U32DivThousand(ms)
        nsec == ts.tv_nsec + U32ModThousand(ms) * 1000000
    IN  IF nsec >= NSEC_PER_SEC
        THEN Timespec(sec + 1, nsec - NSEC_PER_SEC)
        ELSE Timespec(sec, nsec)

\* mutant: the instant equal to the deadline does not count as after it
timespec_after_strict(a, b) ==
    IF a.tv_sec > b.tv_sec THEN TRUE
    ELSE IF a.tv_sec < b.tv_sec THEN FALSE
    ELSE a.tv_nsec > b.tv_nsec

timespec_after(a, b) ==
    IF a.tv_sec > b.tv_sec THEN TRUE
    ELSE IF a.tv_sec < b.tv_sec THEN FALSE
    ELSE a.tv_nsec >= b.tv_nsec

-----------------------------------------------------------------------------
(* gpio.c *)

\* gpio_board_init drives the rumble line to 0; the static starts false.
\* writes is history: the parity of the number of gpio_write_value calls
\* gpio_set_rumble has made on the rumble line.
gpio_board_init == [current_state |-> FALSE, line |-> FALSE, writes |-> 0]

\* mutant: the value is written whether or not it differs from the last one
gpio_set_rumble_unconditional(g, enable) ==
    [current_state |-> enable, line |-> enable, writes |-> 1 - g.writes]

gpio_set_rumble(g, enable) ==
    IF g.current_state = enable
    THEN g
    ELSE [current_state |-> enable, line |-> enable, writes |-> 1 - g.writes]

-----------------------------------------------------------------------------
(* rumble.c: the effect manager.  A slot is [in_use, id, strong, weak,     *)
(* length]: the in_use flag and the fields of the stored ff_effect that    *)
(* the code reads (effect.id, u.rumble.strong_magnitude,                   *)
(* u.rumble.weak_magnitude, replay.length).  memset leaves them all 0.     *)

ZeroSlot == [in_use |-> FALSE, id |-> 0, strong |-> 0, weak |-> 0, length |-> 0]

rumble_state_init ==
    [slots |-> [i \in SlotIds |-> ZeroSlot],
     rumble_active |-> FALSE,
     stop_time |-> Timespec(0, 0),
     gain |-> GAIN_MAX]

\* index of the first slot not in use, -1 when there is none
allocate_slot(r) ==
    IF \E i \in SlotIds : ~r.slots[i].in_use
    THEN CHOOSE i \in SlotIds :
            /\ ~r.slots[i].in_use
            /\ \A j \in SlotIds : j < i => r.slots[j].in_use
    ELSE -1

\* The result of a call: the engine and gpio state after it and its return value
Result(r, g, ret) == [r |-> r, g |-> g, ret |-> ret]

StoreEffect(r, id, e) ==
    [r EXCEPT !.slots[id] =
        [in_use |-> TRUE, id |-> id, strong |-> e.strong, weak |-> e.weak,
         length |-> e.length]]

\* mutant: a request without id takes the last Free slot, not the first
rumble_upload_effect_lastfree(r, g, e) ==
    IF e.type # FF_RUMBLE THEN Result(r, g, -EINVAL)
    ELSE IF e.id < 0
         THEN IF allocate_slot(r) < 0
              THEN Result(r, g, -ENOSPC)
              ELSE LET k == CHOOSE i \in SlotIds :
                               /\ ~r.slots[i].in_use
                               /\ \A j \in SlotIds : j > i => r.slots[j].in_use
                   IN  Result(StoreEffect(r, k, e), g, 0)
         ELSE IF e.id >= RUMBLE_MAX_EFFECTS
              THEN Result(r, g, -EINVAL)
              ELSE Result(StoreEffect(r, e.id, e), g, 0)

\* mutant: the effect type is not looked at
rumble_upload_effect_anytype(r, g, e) ==
    IF e.id < 0
    THEN IF allocate_slot(r) < 0
         THEN Result(r, g, -ENOSPC)
         ELSE Result(StoreEffect(r, allocate_slot(r), e), g, 0)
    ELSE IF e.id >= RUMBLE_MAX_EFFECTS
         THEN Result(r, g, -EINVAL)
         ELSE Result(StoreEffect(r, e.id, e), g, 0)

rumble_upload_effect(r, g, e) ==
    IF e.type # FF_RUMBLE THEN Result(r, g, -EINVAL)
    ELSE IF e.id < 0
         THEN IF allocate_slot(r) < 0
              THEN Result(r, g, -ENOSPC)
              ELSE Result(StoreEffect(r, allocate_slot(r), e), g, 0)
         ELSE IF e.id >= RUMBLE_MAX_EFFECTS
              THEN Result(r, g, -EINVAL)
              ELSE Result(StoreEffect(r, e.id, e), g, 0)

\* the id written back to effect->id by a successful upload
UploadedId(r, e) == IF e.id < 0 THEN allocate_slot(r) ELSE e.id

\* mutant: the erase frees the slot and never stops the playback
rumble_erase_effect_nostop(r, g, effect_id) ==
    IF effect_id < 0 \/ effect_id >= RUMBLE_MAX_EFFECTS
    THEN [r |-> r, g |-> g, ret |-> -EINVAL]
    ELSE [r |-> [r EXCEPT !.slots[effect_id].in_use = FALSE], g |-> g, ret |-> 0]

\* mutant: the erase stops the playback and leaves the slot in use
rumble_erase_effect_nofree(r, g, effect_id) ==
    IF effect_id < 0 \/ effect_id >= RUMBLE_MAX_EFFECTS
    THEN [r |-> r, g |-> g, ret |-> -EINVAL]
    ELSE IF r.rumble_active /\ r.slots[effect_id].id = effect_id
         THEN [r |-> [r EXCEPT !.rumble_active = FALSE],
               g |-> gpio_set_rumble(g, FALSE), ret |-> 0]
         ELSE [r |-> r, g |-> g, ret |-> 0]

rumble_erase_effect(r, g, effect_id) ==
    IF effect_id < 0 \/ effect_id >= RUMBLE_MAX_EFFECTS
    THEN Result(r, g, -EINVAL)
    ELSE LET freed == [r EXCEPT !.slots[effect_id].in_use = FALSE]
         IN  IF freed.rumble_active /\ freed.slots[effect_id].id = effect_id
             THEN Result([freed EXCEPT !.rumble_active = FALSE],
                         gpio_set_rumble(g, FALSE), 0)
             ELSE Result(freed, g, 0)

\* mutant: the playback goes Idle and the line is left as it is
rumble_stop_keepline(r, g) ==
    IF ~r.rumble_active THEN Result(r, g, 0)
    ELSE Result([r EXCEPT !.rumble_active = FALSE], g, 0)

rumble_stop(r, g) ==
    IF ~r.rumble_active
    THEN Result(r, g, 0)
    ELSE Result([r EXCEPT !.rumble_active = FALSE], gpio_set_rumble(g, FALSE), 0)

\* max(strong, weak) * gain / 0xFFFF, in uint32 and stored back into a uint16
EffectiveMagnitude(slot, gain) ==
    LET mag == IF slot.weak > slot.strong THEN slot.weak ELSE slot.strong
        \* mag * gain < 2^32 can exceed the checker's integers: split gain in bytes
        q == (mag * (gain \div 256)) \div GAIN_MAX
        rem == (mag * (gain \div 256)) % GAIN_MAX
    IN  (q * 256 + (rem * 256 + mag * (gain % 256)) \div GAIN_MAX) % 65536

\* reps as the unsigned int of line 135: repeat itself when positive, else 1
Reps(repeat) == IF repeat > 0 THEN U32OfInt(repeat) ELSE U32(0, 1)

\* duration_ms of line 136: replay.length * reps in unsigned int
DurationMs(slot, repeat) == MulU16U32(slot.length, Reps(repeat))

\* mutant: repeat == 0 is not told apart, only a zero magnitude stops
rumble_play_effect_norepeat0(r, g, t, effect_id, repeat) ==
    IF effect_id < 0 \/ effect_id >= RUMBLE_MAX_EFFECTS THEN Result(r, g, 0)
    ELSE IF ~r.slots[effect_id].in_use THEN Result(r, g, 0)
    ELSE IF EffectiveMagnitude(r.slots[effect_id], r.gain) = 0
         THEN rumble_stop(r, g)
         ELSE Result([r EXCEPT
                        !.stop_time =
                            timespec_add_ms(t, DurationMs(r.slots[effect_id], repeat)),
                        !.rumble_active = TRUE],
                     gpio_set_rumble(g, TRUE), 0)

\* mutant: the in_use flag of the slot is not looked at
rumble_play_effect_nofreecheck(r, g, t, effect_id, repeat) ==
    IF effect_id < 0 \/ effect_id >= RUMBLE_MAX_EFFECTS THEN Result(r, g, 0)
    ELSE IF EffectiveMagnitude(r.slots[effect_id], r.gain) = 0 \/ repeat = 0
         THEN rumble_stop(r, g)
         ELSE Result([r EXCEPT
                        !.stop_time =
                            timespec_add_ms(t, DurationMs(r.slots[effect_id], repeat)),
                        !.rumble_active = TRUE],
                     gpio_set_rumble(g, TRUE), 0)

rumble_play_effect(r, g, t, effect_id, repeat) ==
    IF effect_id < 0 \/ effect_id >= RUMBLE_MAX_EFFECTS THEN Result(r, g, 0)
    ELSE IF ~r.slots[effect_id].in_use THEN Result(r, g, 0)
    ELSE IF EffectiveMagnitude(r.slots[effect_id], r.gain) = 0 \/ repeat = 0
         THEN rumble_stop(r, g)
         ELSE Result([r EXCEPT
                        !.stop_time =
                            timespec_add_ms(t, DurationMs(r.slots[effect_id], repeat)),
                        !.rumble_active = TRUE],
                     gpio_set_rumble(g, TRUE), 0)

\* mutant: the gain is stored and a running playback is left alone
rumble_apply_gain_nostop(r, g, newgain) ==
    Result([r EXCEPT !.gain = newgain], g, 0)

rumble_apply_gain(r, g, newgain) ==
    LET stored == [r EXCEPT !.gain = newgain]
    IN  IF ~stored.rumble_active THEN Result(stored, g, 0)
        ELSE IF newgain = 0 THEN rumble_stop(stored, g)
        ELSE Result(stored, g, 0)

rumble_tick(r, g, t) ==
    IF ~r.rumble_active THEN Result(r, g, 0)
    ELSE IF timespec_after(t, r.stop_time) THEN rumble_stop(r, g)
    ELSE Result(r, g, 0)

-----------------------------------------------------------------------------
(* controller.c: axis mapping.  The double arithmetic of map_adc_to_axis   *)
(* is carried out in the integers: normalized is centered / range clamped  *)
(* to [-1, 1], scaled is normalized times 32767 (or 32768 when negative)   *)
(* and fast_round rounds it to the nearest integer, ties away from zero.   *)

AXIS_MIN == -32768

AXIS_MAX == 32767

DEFAULT_DEADZONE == 1024

Abs(n) == IF n < 0 THEN -n ELSE n

\* mutant: the value is returned as it is
clamp_axis_none(value) == value

clamp_axis(value) ==
    IF value > AXIS_MAX THEN AXIS_MAX
    ELSE IF value < AXIS_MIN THEN AXIS_MIN
    ELSE value

\* mutant: the two extremes of the output range are exchanged
ScaledRound_swapped(centered, range) ==
    LET negative == centered # 0 /\ ((centered < 0) # (range < 0))
        num == IF Abs(centered) > Abs(range) THEN Abs(range) ELSE Abs(centered)
        extreme == IF negative THEN AXIS_MAX ELSE -AXIS_MIN
        q == (num * extreme) \div Abs(range)
        rem == (num * extreme) % Abs(range)
        mag == IF 2 * rem >= Abs(range) THEN q + 1 ELSE q
    IN  IF negative THEN -mag ELSE mag

\* fast_round(normalized * extreme) for normalized = centered / range
ScaledRound(centered, range) ==
    LET negative == centered # 0 /\ ((centered < 0) # (range < 0))
        num == IF Abs(centered) > Abs(range) THEN Abs(range) ELSE Abs(centered)
        extreme == IF negative THEN -AXIS_MIN ELSE AXIS_MAX
        q == (num * extreme) \div Abs(range)
        rem == (num * extreme) % Abs(range)
        mag == IF 2 * rem >= Abs(range) THEN q + 1 ELSE q
    IN  IF negative THEN -mag ELSE mag

\* mutant: a deadzone of 0 is used as it is
EffectiveDeadzone_nodefault(deadzone) ==
    IF deadzone > AXIS_MAX THEN AXIS_MAX ELSE deadzone

\* dz of lines 115-117
EffectiveDeadzone(deadzone) ==
    IF deadzone <= 0 THEN DEFAULT_DEADZONE
    ELSE IF deadzone > AXIS_MAX THEN AXIS_MAX
    ELSE deadzone

\* mutant: the deadzone is compared with the centered raw sample
map_adc_to_axis_rawdeadzone(raw, min, max, zero, deadzone, invert) ==
    LET centered == raw - zero
        range == IF centered >= 0 THEN max - zero ELSE zero - min
    IN  IF range = 0 THEN 0
        ELSE LET rounded == ScaledRound(centered, range)
                 value == IF invert THEN -rounded ELSE rounded
             IN  IF Abs(centered) < EffectiveDeadzone(deadzone)
                 THEN clamp_axis(0)
                 ELSE clamp_axis(value)

map_adc_to_axis(raw, min, max, zero, deadzone, invert) ==
    LET centered == raw - zero
        range == IF centered >= 0 THEN max - zero ELSE zero - min
    IN  IF range = 0 THEN 0
        ELSE LET rounded == ScaledRound(centered, range)
                 value == IF invert THEN -rounded ELSE rounded
             IN  IF Abs(value) < EffectiveDeadzone(deadzone)
                 THEN clamp_axis(0)
                 ELSE clamp_axis(value)

\* config.c: set_default_calibration
DefaultCalibration ==
    [x_min |-> 0, x_max |-> 4095, y_min |-> 0, y_max |-> 4095,
     x_zero |-> 2048, y_zero |-> 2048, deadzone |-> DEFAULT_DEADZONE]

-----------------------------------------------------------------------------
(* controller.c: events.  An input_event is [type, code, value]; the       *)
(* update functions return the events they emit in order, their dirty      *)
(* flag and the state they store.                                          *)

Event(type, code, value) == [type |-> type, code |-> code, value |-> value]

SynReport == Event("EV_SYN", "SYN_REPORT", 0)

SIDE_LEFT == "left"

SIDE_RIGHT == "right"

Sides == {SIDE_LEFT, SIDE_RIGHT}

\* the descriptor openSerialJoystick returns for a side when it succeeds
FdOf(side) == IF side = SIDE_LEFT THEN 3 ELSE 4

\* (b & mask) != 0 for a one-bit mask
BitSet(b, mask) == (b \div mask) % 2 = 1

Entry(mask, code) == [mask |-> mask, code |-> code]

left_map ==
    << Entry(1, "BTN_TL"), Entry(2, "BTN_TL2"), Entry(128, "BTN_MODE") >>

right_map ==
    << Entry(16, "BTN_SOUTH"), Entry(32, "BTN_EAST"), Entry(4, "BTN_NORTH"),
       Entry(8, "BTN_WEST"), Entry(1, "BTN_TR"), Entry(2, "BTN_TR2"),
       Entry(64, "BTN_SELECT"), Entry(128, "BTN_START") >>

ButtonMap(side) == IF side = SIDE_LEFT THEN left_map ELSE right_map

\* mutant: the transitions come out in reverse table order
RECURSIVE ButtonEvents_reversed(_, _, _, _)
ButtonEvents_reversed(map, from, prev, current) ==
    IF from > Len(map) THEN << >>
    ELSE LET prev_state == BitSet(prev, map[from].mask)
             curr_state == BitSet(current, map[from].mask)
             rest == ButtonEvents_reversed(map, from + 1, prev, current)
         IN  IF prev_state = curr_state THEN rest
             ELSE rest \o
                  << Event("EV_KEY", map[from].code, IF curr_state THEN 1 ELSE 0) >>

\* the loop of lines 336-344 over map[from .. map_len]
RECURSIVE ButtonEvents(_, _, _, _)
ButtonEvents(map, from, prev, current) ==
    IF from > Len(map) THEN << >>
    ELSE LET prev_state == BitSet(prev, map[from].mask)
             curr_state == BitSet(current, map[from].mask)
             rest == ButtonEvents(map, from + 1, prev, current)
         IN  IF prev_state = curr_state THEN rest
             ELSE << Event("EV_KEY", map[from].code, IF curr_state THEN 1 ELSE 0) >>
                  \o rest

\* mutant: the previous bitmask is not replaced by the current one
update_buttons_nostore(side, lastb, current) ==
    IF lastb = current
    THEN [events |-> << >>, dirty |-> FALSE, last_buttons |-> lastb]
    ELSE LET evs == ButtonEvents(ButtonMap(side), 1, lastb, current)
         IN  [events |-> evs, dirty |-> evs # << >>, last_buttons |-> lastb]

update_buttons(side, lastb, current) ==
    IF lastb = current
    THEN [events |-> << >>, dirty |-> FALSE, last_buttons |-> lastb]
    ELSE LET evs == ButtonEvents(ButtonMap(side), 1, lastb, current)
         IN  [events |-> evs, dirty |-> evs # << >>, last_buttons |-> current]

\* mutant: right and down win when both bits of an axis are set
update_hat_posfirst(h, buttons) ==
    LET new_x == IF BitSet(buttons, 16) THEN 1 ELSE IF BitSet(buttons, 8) THEN -1 ELSE 0
        new_y == IF BitSet(buttons, 32) THEN 1 ELSE IF BitSet(buttons, 4) THEN -1 ELSE 0
        ex == IF new_x # h.x THEN << Event("EV_ABS", "ABS_HAT0X", new_x) >> ELSE << >>
        ey == IF new_y # h.y THEN << Event("EV_ABS", "ABS_HAT0Y", new_y) >> ELSE << >>
    IN  [events |-> ex \o ey, dirty |-> (ex \o ey) # << >>,
         hat |-> [x |-> new_x, y |-> new_y]]

\* mutant: the hat reports dirty whenever a hat bit is set
update_hat_dirtybits(h, buttons) ==
    LET new_x == IF BitSet(buttons, 8) THEN -1 ELSE IF BitSet(buttons, 16) THEN 1 ELSE 0
        new_y == IF BitSet(buttons, 4) THEN -1 ELSE IF BitSet(buttons, 32) THEN 1 ELSE 0
        ex == IF new_x # h.x THEN << Event("EV_ABS", "ABS_HAT0X", new_x) >> ELSE << >>
        ey == IF new_y # h.y THEN << Event("EV_ABS", "ABS_HAT0Y", new_y) >> ELSE << >>
    IN  [events |-> ex \o ey, dirty |-> new_x # 0 \/ new_y # 0,
         hat |-> [x |-> new_x, y |-> new_y]]

update_hat(h, buttons) ==
    LET new_x == IF BitSet(buttons, 8) THEN -1 ELSE IF BitSet(buttons, 16) THEN 1 ELSE 0
        new_y == IF BitSet(buttons, 4) THEN -1 ELSE IF BitSet(buttons, 32) THEN 1 ELSE 0
        ex == IF new_x # h.x THEN << Event("EV_ABS", "ABS_HAT0X", new_x) >> ELSE << >>
        ey == IF new_y # h.y THEN << Event("EV_ABS", "ABS_HAT0Y", new_y) >> ELSE << >>
    IN  [events |-> ex \o ey, dirty |-> (ex \o ey) # << >>,
         hat |-> [x |-> new_x, y |-> new_y]]

\* the axis codes of the two branches of update_axes
AxisCodes(side) ==
    IF side = SIDE_LEFT THEN [x |-> "ABS_X", y |-> "ABS_Y"]
    ELSE [x |-> "ABS_Z", y |-> "ABS_RZ"]

update_axes(side, pad, packet) ==
    LET c == pad.calibration
        x == map_adc_to_axis(packet.x, c.x_min, c.x_max, c.x_zero, c.deadzone, TRUE)
        y == map_adc_to_axis(packet.y, c.y_min, c.y_max, c.y_zero, c.deadzone, TRUE)
        ex == IF x # pad.last_x THEN << Event("EV_ABS", AxisCodes(side).x, x) >> ELSE << >>
        ey == IF y # pad.last_y THEN << Event("EV_ABS", AxisCodes(side).y, y) >> ELSE << >>
    IN  [events |-> ex \o ey, dirty |-> (ex \o ey) # << >>, last_x |-> x, last_y |-> y]

\* the events prime_state writes after the device is created
prime_state ==
    << Event("EV_ABS", "ABS_X", 0), Event("EV_ABS", "ABS_Y", 0),
       Event("EV_ABS", "ABS_Z", 0), Event("EV_ABS", "ABS_RZ", 0),
       Event("EV_ABS", "ABS_HAT0X", 0), Event("EV_ABS", "ABS_HAT0Y", 0),
       Event("EV_KEY", "BTN_EAST", 0), Event("EV_KEY", "BTN_SOUTH", 0),
       Event("EV_KEY", "BTN_NORTH", 0), Event("EV_KEY", "BTN_WEST", 0),
       Event("EV_KEY", "BTN_TL", 0), Event("EV_KEY", "BTN_TR", 0),
       Event("EV_KEY", "BTN_TL2", 0), Event("EV_KEY", "BTN_TR2", 0),
       Event("EV_KEY", "BTN_SELECT", 0), Event("EV_KEY", "BTN_START", 0),
       Event("EV_KEY", "BTN_MODE", 0), SynReport >>

HatCodes == {"ABS_HAT0X", "ABS_HAT0Y"}

ButtonCodes(side) == {ButtonMap(side)[i].code : i \in 1..Len(ButtonMap(side))}

\* the codes the virtual device reports
SinkCodes ==
    {AxisCodes(SIDE_LEFT).x, AxisCodes(SIDE_LEFT).y, AxisCodes(SIDE_RIGHT).x,
     AxisCodes(SIDE_RIGHT).y} \cup HatCodes \cup ButtonCodes(SIDE_LEFT)
       \cup ButtonCodes(SIDE_RIGHT)

\* the device before any event is written: no code has a value yet (the
\* marker is outside the range of every value the program emits)
NoSink == [c \in SinkCodes |-> AXIS_MAX + 1]

\* the last value delivered for each code once emit_event has written the
\* events in order
RECURSIVE SinkAfter(_, _)
SinkAfter(sink, events) ==
    IF events = << >> THEN sink
    ELSE LET e == Head(events)
         IN  SinkAfter(IF e.type \in {"EV_ABS", "EV_KEY"} /\ e.code \in SinkCodes
                       THEN [sink EXCEPT ![e.code] = e.value]
                       ELSE sink,
                       Tail(events))

-----------------------------------------------------------------------------
(* The force-feedback requests the host can send (process_uinput_events):  *)
(* small sets that cover every branch of the engine.                       *)

MaxSec == 1

Effect(type, id, strong, weak, length) ==
    [type |-> type, id |-> id, strong |-> strong, weak |-> weak, length |-> length]

UploadRequests ==
    { Effect(FF_RUMBLE, -1, 65535, 0, 1000),     \* allocate a slot
      Effect(FF_RUMBLE, 0, 0, 0, 1000),          \* explicit id, zero magnitude
      Effect(FF_RUMBLE, 1, 0, 1, 1000),          \* weak > strong, muted by gain < 0xFFFF
      Effect(FF_RUMBLE, RUMBLE_MAX_EFFECTS, 65535, 0, 1000),
      Effect(FF_PERIODIC, -1, 65535, 0, 1000) }

EraseIds == {-1, 0, 1, RUMBLE_MAX_EFFECTS}

\* ev.code is a uint16: no negative id reaches rumble_play_effect
PlayIds == {0, 1, RUMBLE_MAX_EFFECTS}

PlayRepeats == {-1, 0, 1}

Gains == {0, 32767, GAIN_MAX}

ClockSteps == {1000}

-----------------------------------------------------------------------------
(* History variables.  They record what the program did; no operator of    *)
(* the program reads them.                                                 *)

NoUpload == [valid |-> FALSE, id |-> -1, before |-> {}]

Call(op, id, arg, ret) ==
    [op |-> op, id |-> id, arg |-> arg, ret |-> ret,
     pre_active |-> rumble.rumble_active, pre_driving |-> driving, pre_upl |-> upl]

InUse(r) == {i \in SlotIds : r.slots[i].in_use}

\* the effect driving the motor after a call that left the engine in state r
Driving(r, started) ==
    IF ~r.rumble_active THEN -1
    ELSE IF started >= 0 THEN started
    ELSE driving

-----------------------------------------------------------------------------
(* Actions: one engine call each, as process_uinput_events and the main    *)
(* loop issue them.                                                        *)

\* run_controller up to the main loop, every start-up step having succeeded
Pad(fd) ==
    [fd |-> fd, calibration |-> DefaultCalibration,
     last_buttons |-> 0, last_x |-> 0, last_y |-> 0]

NoIteration ==
    [log |-> << >>, down |-> {}, reopened |-> {}, serviced |-> {},
     sink |-> SinkAfter(NoSink, prime_state)]

\* no sample recorded
NoProbe == [fn |-> "none"]

LoopInit ==
    /\ pc = "loop"
    /\ keep_running = 1
    /\ pads = [s \in Sides |-> Pad(FdOf(s))]
    /\ hat = [x |-> 0, y |-> 0]
    /\ revents = [left |-> FALSE, right |-> FALSE, uinput |-> FALSE]
    /\ sent_event = FALSE
    /\ reads = 0
    /\ device = "created"
    /\ handles = Sides
    /\ exit_cause = "none"
    /\ iter = NoIteration

\* no call recorded
NoCall == [op |-> "init", id |-> -1, arg |-> 0, ret |-> 0,
           pre_active |-> FALSE, pre_driving |-> -1, pre_upl |-> NoUpload]

EngineInit(start) ==
    /\ rumble = rumble_state_init
    /\ gpio = gpio_board_init
    /\ now \in start
    /\ driving = -1
    /\ last = NoCall
    /\ upl = NoUpload

Init == EngineInit({Timespec(0, 0)}) /\ LoopInit /\ probe = NoProbe

Upload(e) ==
    LET res == rumble_upload_effect(rumble, gpio, e)
        id == IF res.ret = 0 THEN UploadedId(rumble, e) ELSE e.id
    IN  /\ rumble' = res.r
        /\ gpio' = res.g
        /\ driving' = Driving(res.r, -1)
        /\ last' = Call("upload", id, 0, res.ret)
        /\ upl' = IF res.ret = 0
                  THEN [valid |-> TRUE, id |-> id, before |-> InUse(rumble)]
                  ELSE NoUpload
        /\ UNCHANGED now

Erase(id) ==
    LET res == rumble_erase_effect(rumble, gpio, id)
    IN  /\ rumble' = res.r
        /\ gpio' = res.g
        /\ driving' = Driving(res.r, -1)
        /\ last' = Call("erase", id, 0, res.ret)
        /\ upl' = NoUpload
        /\ UNCHANGED now

Play(id, repeat) ==
    LET res == rumble_play_effect(rumble, gpio, now, id, repeat)
        started == IF res.r.rumble_active /\ res.r # rumble THEN id ELSE -1
    IN  /\ rumble' = res.r
        /\ gpio' = res.g
        /\ driving' = Driving(res.r, started)
        /\ last' = Call("play", id, repeat, 0)
        /\ upl' = NoUpload
        /\ UNCHANGED now

Gain(v) ==
    LET res == rumble_apply_gain(rumble, gpio, v)
    IN  /\ rumble' = res.r
        /\ gpio' = res.g
        /\ driving' = Driving(res.r, -1)
        /\ last' = Call("gain", -1, v, 0)
        /\ upl' = NoUpload
        /\ UNCHANGED now

Tick ==
    LET res == rumble_tick(rumble, gpio, now)
    IN  /\ rumble' = res.r
        /\ gpio' = res.g
        /\ driving' = Driving(res.r, -1)
        /\ last' = Call("tick", -1, 0, 0)
        /\ upl' = NoUpload
        /\ UNCHANGED now

\* CLOCK_MONOTONIC advances between calls
ClockAdvance(ms) ==
    /\ now.tv_sec < MaxSec
    /\ now' = timespec_add_ms(now, U32OfInt(ms))
    /\ last' = Call("clock", -1, ms, 0)
    /\ UNCHANGED <<rumble, gpio, driving, upl>>

\* The engine alone: the calls in any order, the main loop left aside
Next ==
    \/ \E e \in UploadRequests : Upload(e) /\ UNCHANGED lvars
    \/ \E id \in EraseIds : Erase(id) /\ UNCHANGED lvars
    \/ \E id \in PlayIds, repeat \in PlayRepeats : Play(id, repeat) /\ UNCHANGED lvars
    \/ \E v \in Gains : Gain(v) /\ UNCHANGED lvars
    \/ Tick /\ UNCHANGED lvars
    \/ \E ms \in ClockSteps : ClockAdvance(ms) /\ UNCHANGED lvars

Spec == Init /\ [][Next]_vars

-----------------------------------------------------------------------------
(* The same engine under requests that vary the durations and the clock:   *)
(* few slots, many deadlines.                                              *)

UploadRequestsT ==
    { Effect(FF_RUMBLE, 0, 65535, 0, 250),
      Effect(FF_RUMBLE, 0, 0, 40000, 65535),
      Effect(FF_RUMBLE, 1, 65535, 0, 0),
      Effect(FF_RUMBLE, 1, 0, 0, 250) }

PlayIdsT == {0, 1}

PlayRepeatsT == {-1, 0, 1, 2, 65538}

ClockStepsT == {250, 500}

StartInstants == {Timespec(0, 0), Timespec(0, 999999999)}

InitT == EngineInit(StartInstants) /\ LoopInit /\ probe = NoProbe

NextT ==
    \/ \E e \in UploadRequestsT : Upload(e) /\ UNCHANGED lvars
    \/ \E id \in PlayIdsT, repeat \in PlayRepeatsT : Play(id, repeat) /\ UNCHANGED lvars
    \/ Tick /\ UNCHANGED lvars
    \/ \E ms \in ClockStepsT : ClockAdvance(ms) /\ UNCHANGED lvars

SpecTime == InitT /\ [][NextT]_vars

-----------------------------------------------------------------------------
(* controller.c: the main loop of run_controller, one action per step.     *)
(* The serial transport (openSerialJoystick, readSerialJoypad,             *)
(* closeSerialJoystick) answers as the environment decides.                *)

MaxBurst == 1

\* the packets a side can deliver: [x, y, buttons]
Packet(x, y, buttons) == [x |-> x, y |-> y, buttons |-> buttons]

LeftPackets ==
    { Packet(2048, 2048, 0),
      Packet(4095, 2048, 1),        \* stick deflected, L1
      Packet(2048, 2048, 72) }      \* hat left (0x08) and the unmapped bit 0x40

RightPackets ==
    { Packet(2048, 2048, 0),
      Packet(2048, 0, 16) }         \* stick deflected, B

Packets(side) == IF side = SIDE_LEFT THEN LeftPackets ELSE RightPackets

\* the force-feedback requests of the host while the loop runs
UploadRequestsL == { Effect(FF_RUMBLE, 0, 65535, 0, 1000) }

PlayRepeatsL == {0, 1}

GainsL == {0, GAIN_MAX}

\* openSerialJoystick: the descriptor, or -1
openSerialJoystick(side) == {FdOf(side), -1}

\* mutant: the reopen starts the half-pad afresh
reopen_serial_reset(side, fd) ==
    /\ pads' = [pads EXCEPT ![side] = Pad(fd)]
    /\ handles' = IF fd >= 0 THEN handles \cup {side} ELSE handles \ {side}

\* reopen_serial: close the handle if there is one, open the port again
reopen_serial(side, fd) ==
    /\ pads' = [pads EXCEPT ![side].fd = fd]
    /\ handles' = IF fd >= 0 THEN handles \cup {side} ELSE handles \ {side}

\* mutant: the shutdown leaves the rumble line as it is
Shutdown_nogpio(cause) ==
    /\ device' = "destroyed"
    /\ handles' = {}
    /\ exit_cause' = cause
    /\ pc' = "exited"
    /\ UNCHANGED <<rumble, gpio, now, driving, last, upl, keep_running, pads, hat,
                   revents, sent_event, reads, iter>>

\* lines 647-650
Shutdown(cause) ==
    /\ device' = "destroyed"
    /\ handles' = {}
    /\ gpio' = gpio_set_rumble(gpio, FALSE)
    /\ exit_cause' = cause
    /\ pc' = "exited"
    /\ UNCHANGED <<rumble, now, driving, last, upl, keep_running, pads, hat,
                   revents, sent_event, reads, iter>>

\* handle_signal clears keep_running.  The flag is read only by the while
\* test at the head of the loop, so a signal delivered anywhere in an
\* iteration is observed there: the delivery is placed at the head.
Signal ==
    /\ pc = "loop"
    /\ keep_running = 1
    /\ keep_running' = 0
    /\ UNCHANGED <<rumble, gpio, now, driving, last, upl, pc, pads, hat, revents,
                   sent_event, reads, device, handles, exit_cause, iter>>

\* while (keep_running) is false: leave the loop
LoopExit ==
    /\ pc = "loop"
    /\ keep_running = 0
    /\ Shutdown("signal")

\* poll fails with EINTR: continue
PollInterrupted ==
    /\ pc = "loop"
    /\ keep_running = 1
    /\ UNCHANGED vars

\* poll fails otherwise: break
PollFailed ==
    /\ pc = "loop"
    /\ keep_running = 1
    /\ Shutdown("poll")

\* poll returns: POLLIN is reported for a descriptor that is open and has
\* input; a negative descriptor is ignored by poll.  The record of the last
\* engine call and upload is kept per iteration.
Poll ==
    /\ pc = "loop"
    /\ keep_running = 1
    /\ \E l \in (IF pads[SIDE_LEFT].fd >= 0 THEN BOOLEAN ELSE {FALSE}),
          r \in (IF pads[SIDE_RIGHT].fd >= 0 THEN BOOLEAN ELSE {FALSE}),
          u \in BOOLEAN :
            revents' = [left |-> l, right |-> r, uinput |-> u]
    /\ sent_event' = FALSE
    /\ reads' = 0
    /\ iter' = [log |-> << >>, down |-> {s \in Sides : pads[s].fd < 0},
                reopened |-> {}, serviced |-> {}, sink |-> iter.sink]
    /\ pc' = "left"
    /\ last' = NoCall
    /\ upl' = NoUpload
    /\ UNCHANGED <<rumble, gpio, now, driving, keep_running, pads, hat,
                   device, handles, exit_cause>>

NextPc(side) == IF side = SIDE_LEFT THEN "right" ELSE "uinput"

\* if (pfds[i].revents & POLLIN) is false
SideNotReady(side) ==
    /\ pc = side
    /\ ~revents[side]
    /\ pc' = NextPc(side)
    /\ UNCHANGED <<rumble, gpio, now, driving, last, upl, keep_running, pads, hat,
                   revents, sent_event, reads, device, handles, exit_cause, iter>>

\* mutant: the buttons of a packet are diffed before its axes are mapped
ProcessPacket_buttonsfirst(side, packet) ==
    LET axes == update_axes(side, pads[side], packet)
        btns == update_buttons(side, pads[side].last_buttons, packet.buttons)
        hats == IF side = SIDE_LEFT
                THEN update_hat(hat, packet.buttons)
                ELSE [events |-> << >>, dirty |-> FALSE, hat |-> hat]
    IN  [events |-> btns.events \o axes.events \o hats.events,
         dirty |-> axes.dirty \/ btns.dirty \/ hats.dirty,
         pad |-> [pads[side] EXCEPT !.last_x = axes.last_x, !.last_y = axes.last_y,
                                    !.last_buttons = btns.last_buttons],
         hat |-> hats.hat]

\* what lines 607-610 / 625-627 do with a packet
ProcessPacket(side, packet) ==
    LET axes == update_axes(side, pads[side], packet)
        btns == update_buttons(side, pads[side].last_buttons, packet.buttons)
        hats == IF side = SIDE_LEFT
                THEN update_hat(hat, packet.buttons)
                ELSE [events |-> << >>, dirty |-> FALSE, hat |-> hat]
    IN  [events |-> axes.events \o btns.events \o hats.events,
         dirty |-> axes.dirty \/ btns.dirty \/ hats.dirty,
         pad |-> [pads[side] EXCEPT !.last_x = axes.last_x, !.last_y = axes.last_y,
                                    !.last_buttons = btns.last_buttons],
         hat |-> hats.hat]

\* readSerialJoypad returns 1
ReadPacket(side, packet) ==
    LET res == ProcessPacket(side, packet)
    IN  /\ pc = side
        /\ revents[side]
        /\ reads < MaxBurst
        /\ pads' = [pads EXCEPT ![side] = res.pad]
        /\ hat' = res.hat
        /\ sent_event' = (sent_event \/ res.dirty)
        /\ reads' = reads + 1
        /\ iter' = [iter EXCEPT !.log = @ \o res.events,
                                !.serviced = @ \cup {side},
                                !.sink = SinkAfter(@, res.events)]
        /\ UNCHANGED <<rumble, gpio, now, driving, last, upl, pc, keep_running,
                       revents, device, handles, exit_cause>>

\* readSerialJoypad returns 0: nothing more to read
ReadWouldBlock(side) ==
    /\ pc = side
    /\ revents[side]
    /\ pc' = NextPc(side)
    /\ reads' = 0
    /\ iter' = [iter EXCEPT !.serviced = @ \cup {side}]
    /\ UNCHANGED <<rumble, gpio, now, driving, last, upl, keep_running, pads, hat,
                   revents, sent_event, device, handles, exit_cause>>

\* mutant: a read error ends the run
ReadError_fatal(side) ==
    /\ pc = side
    /\ revents[side]
    /\ Shutdown("read_error")

\* readSerialJoypad returns < 0: reopen the port and leave the drain loop
ReadError(side) ==
    /\ pc = side
    /\ revents[side]
    /\ \E fd \in openSerialJoystick(side) : reopen_serial(side, fd)
    /\ pc' = NextPc(side)
    /\ reads' = 0
    /\ iter' = [iter EXCEPT !.serviced = @ \cup {side},
                            !.reopened = @ \cup {side}]
    /\ UNCHANGED <<rumble, gpio, now, driving, last, upl, keep_running, hat,
                   revents, sent_event, device, exit_cause>>

UinputNotReady ==
    /\ pc = "uinput"
    /\ ~revents.uinput
    /\ pc' = "tick"
    /\ UNCHANGED <<rumble, gpio, now, driving, last, upl, keep_running, pads, hat,
                   revents, sent_event, reads, device, handles, exit_cause, iter>>

\* process_uinput_events: one event read and dispatched
UinputRequest ==
    /\ pc = "uinput"
    /\ revents.uinput
    /\ reads < MaxBurst
    /\ \/ \E e \in UploadRequestsL : Upload(e)
       \/ Erase(0)
       \/ \E repeat \in PlayRepeatsL : Play(0, repeat)
       \/ \E v \in GainsL : Gain(v)
    /\ reads' = reads + 1
    /\ iter' = [iter EXCEPT !.serviced = @ \cup {"uinput"}]
    /\ UNCHANGED <<pc, keep_running, pads, hat, revents, sent_event, device,
                   handles, exit_cause>>

\* read returns EAGAIN: the control channel is drained
UinputDrained ==
    /\ pc = "uinput"
    /\ revents.uinput
    /\ pc' = "tick"
    /\ reads' = 0
    /\ iter' = [iter EXCEPT !.serviced = @ \cup {"uinput"}]
    /\ UNCHANGED <<rumble, gpio, now, driving, last, upl, keep_running, pads, hat,
                   revents, sent_event, device, handles, exit_cause>>

\* mutant: rumble_tick is called only in an iteration that had input
LoopTick_oninput ==
    /\ pc = "tick"
    /\ IF revents[SIDE_LEFT] \/ revents[SIDE_RIGHT] \/ revents.uinput
       THEN /\ Tick
            /\ iter' = [iter EXCEPT !.log = Append(@, Event("TICK", "rumble_tick", 0))]
       ELSE UNCHANGED <<rumble, gpio, now, driving, last, upl, iter>>
    /\ pc' = "sync"
    /\ UNCHANGED <<keep_running, pads, hat, revents, sent_event, reads, device,
                   handles, exit_cause>>

\* line 640
LoopTick ==
    /\ pc = "tick"
    /\ Tick
    /\ iter' = [iter EXCEPT !.log = Append(@, Event("TICK", "rumble_tick", 0))]
    /\ pc' = "sync"
    /\ UNCHANGED <<keep_running, pads, hat, revents, sent_event, reads, device,
                   handles, exit_cause>>

\* lines 642-644
LoopSync ==
    /\ pc = "sync"
    /\ iter' = [iter EXCEPT !.log = IF sent_event THEN Append(@, SynReport) ELSE @]
    /\ pc' = "loop"
    /\ UNCHANGED <<rumble, gpio, now, driving, last, upl, keep_running, pads, hat,
                   revents, sent_event, reads, device, handles, exit_cause>>

\* time passes while poll waits (timeout of 1 ms, line 591)
LoopClock ==
    /\ pc = "loop"
    /\ \E ms \in ClockSteps : ClockAdvance(ms)
    /\ UNCHANGED lvars

NextLoop ==
    \/ Signal /\ UNCHANGED probe
    \/ LoopExit /\ UNCHANGED probe
    \/ PollInterrupted
    \/ PollFailed /\ UNCHANGED probe
    \/ Poll /\ UNCHANGED probe
    \/ \E side \in Sides : SideNotReady(side) /\ UNCHANGED probe
    \/ \E side \in Sides : \E packet \in Packets(side) :
          ReadPacket(side, packet) /\ UNCHANGED probe
    \/ \E side \in Sides : ReadWouldBlock(side) /\ UNCHANGED probe
    \/ \E side \in Sides : ReadError(side) /\ UNCHANGED probe
    \/ UinputNotReady /\ UNCHANGED probe
    \/ UinputRequest /\ UNCHANGED probe
    \/ UinputDrained /\ UNCHANGED probe
    \/ LoopTick /\ UNCHANGED probe
    \/ LoopSync /\ UNCHANGED probe
    \/ LoopClock

SpecLoop == Init /\ [][NextLoop]_vars

\* poll returns with no transport readable: at most the control channel
PollQuiet ==
    /\ Poll
    /\ ~revents'[SIDE_LEFT]
    /\ ~revents'[SIDE_RIGHT]

\* The main loop while neither half-pad sends anything
NextQuiet ==
    \/ Signal /\ UNCHANGED probe
    \/ LoopExit /\ UNCHANGED probe
    \/ PollInterrupted
    \/ PollFailed /\ UNCHANGED probe
    \/ PollQuiet /\ UNCHANGED probe
    \/ \E side \in Sides : SideNotReady(side) /\ UNCHANGED probe
    \/ UinputNotReady /\ UNCHANGED probe
    \/ UinputRequest /\ UNCHANGED probe
    \/ UinputDrained /\ UNCHANGED probe
    \/ LoopTick /\ UNCHANGED probe
    \/ LoopSync /\ UNCHANGED probe
    \/ LoopClock

\* The steps the thread of run_controller takes by itself: straight-line
\* code, reads that return, a poll that returns within its timeout.
QuietSteps ==
    /\ \/ LoopExit
       \/ PollQuiet
       \/ \E side \in Sides : SideNotReady(side)
       \/ UinputNotReady
       \/ UinputRequest
       \/ UinputDrained
       \/ LoopTick
       \/ LoopSync
    /\ UNCHANGED probe

\* That loop under a scheduler that keeps the thread running and a clock
\* that keeps advancing while the loop keeps coming back to poll.
SpecQuietFair ==
    /\ Init
    /\ [][NextQuiet]_vars
    /\ WF_vars(QuietSteps)
    /\ SF_vars(LoopClock)

-----------------------------------------------------------------------------
(* The axis mapper alone: map_adc_to_axis applied to one sample under one  *)
(* calibration, the sample and the calibration being any of the sets       *)
(* below (all of them uint16 values).                                      *)

Calibration(min, max, zero) == [min |-> min, max |-> max, zero |-> zero]

CalibrationsM ==
    { Calibration(0, 4095, 2048),        \* set_default_calibration
      Calibration(0, 4096, 2048),        \* symmetric
      Calibration(0, 65534, 32767),      \* symmetric, full uint16 span
      Calibration(1000, 3000, 2000),     \* symmetric
      Calibration(0, 2, 1),              \* symmetric, half-range 1
      Calibration(2048, 4095, 2048),     \* zero = min: negative half-range 0
      Calibration(0, 2048, 2048),        \* zero = max: positive half-range 0
      Calibration(0, 0, 0),              \* both half-ranges 0
      Calibration(100, 200, 300),        \* zero above max
      Calibration(300, 400, 200),        \* zero below min
      Calibration(4095, 0, 2048),        \* min and max exchanged
      Calibration(0, 65535, 0) }

RawSamples ==
    { 0, 1, 2, 100, 200, 300, 400, 512, 1000, 1500, 1984, 1985, 2000, 2047, 2048,
      2049, 2111, 2112, 2500, 3000, 3048, 3584, 4095, 4096, 16384, 32767, 49150,
      65534, 65535 }

Deadzones == {0, 1, 1024, 24576, 32767, 32768, 65535}

MapQuery(raw, c, deadzone, invert) ==
    [fn |-> "map_pending", raw |-> raw, min |-> c.min, max |-> c.max,
     zero |-> c.zero, deadzone |-> deadzone, invert |-> invert, out |-> 0]

MapQueries ==
    { MapQuery(raw, c, deadzone, invert) :
        raw \in RawSamples, c \in CalibrationsM, deadzone \in Deadzones,
        invert \in BOOLEAN }

InitMap == EngineInit({Timespec(0, 0)}) /\ LoopInit /\ probe \in MapQueries

\* the call of map_adc_to_axis on the pending sample
MapSample ==
    /\ probe.fn = "map_pending"
    /\ probe' = [probe EXCEPT
                    !.fn = "map",
                    !.out = map_adc_to_axis(probe.raw, probe.min, probe.max,
                                            probe.zero, probe.deadzone, probe.invert)]
    /\ UNCHANGED <<rumble, gpio, now, driving, last, upl, pc, keep_running, pads,
                   hat, revents, sent_event, reads, device, handles, exit_cause,
                   iter>>

NextMap == MapSample

SpecMap == InitMap /\ [][NextMap]_vars

-----------------------------------------------------------------------------
(* The button and hat functions alone: update_buttons applied to a bitmask *)
(* and then to the same bitmask again, from any stored bitmask; update_hat *)
(* applied to a bitmask from any stored hat position.                      *)

\* joybutton_t.b: the 8 bits of a packet
Bitmasks == 0..255

HatValues == {-1, 0, 1}

ButtonQueries ==
    { [fn |-> "buttons_pending", side |-> side, prev |-> p, cur |-> c,
       first |-> << >>, events |-> << >>, dirty |-> FALSE] :
        side \in Sides, p \in Bitmasks, c \in Bitmasks }

HatQueries ==
    { [fn |-> "hat_pending", prev |-> [x |-> x, y |-> y], buttons |-> b,
       events |-> << >>, dirty |-> FALSE] :
        x \in HatValues, y \in HatValues, b \in Bitmasks }

\* the state a session is in before the packet arrives: the stored bitmask
\* of the side, or the stored hat position, is the one of the query
InitPad ==
    /\ EngineInit({Timespec(0, 0)})
    /\ probe \in ButtonQueries \cup HatQueries
    /\ pc = "loop"
    /\ keep_running = 1
    /\ pads = [s \in Sides |->
                 IF probe.fn = "buttons_pending" /\ probe.side = s
                 THEN [Pad(FdOf(s)) EXCEPT !.last_buttons = probe.prev]
                 ELSE Pad(FdOf(s))]
    /\ hat = IF probe.fn = "hat_pending" THEN probe.prev ELSE [x |-> 0, y |-> 0]
    /\ revents = [left |-> FALSE, right |-> FALSE, uinput |-> FALSE]
    /\ sent_event = FALSE
    /\ reads = 0
    /\ device = "created"
    /\ handles = Sides
    /\ exit_cause = "none"
    /\ iter = NoIteration

\* update_buttons on the bitmask of the query
ButtonsSample ==
    /\ probe.fn = "buttons_pending"
    /\ LET res == update_buttons(probe.side, pads[probe.side].last_buttons, probe.cur)
       IN  /\ pads' = [pads EXCEPT ![probe.side].last_buttons = res.last_buttons]
           /\ probe' = [probe EXCEPT !.fn = "buttons", !.first = res.events,
                                     !.events = res.events, !.dirty = res.dirty]
    /\ UNCHANGED <<rumble, gpio, now, driving, last, upl, pc, keep_running, hat,
                   revents, sent_event, reads, device, handles, exit_cause, iter>>

\* update_buttons on the same bitmask once more
ButtonsAgain ==
    /\ probe.fn = "buttons"
    /\ LET res == update_buttons(probe.side, pads[probe.side].last_buttons, probe.cur)
       IN  /\ pads' = [pads EXCEPT ![probe.side].last_buttons = res.last_buttons]
           /\ probe' = [probe EXCEPT !.fn = "buttons_again",
                                     !.events = res.events, !.dirty = res.dirty]
    /\ UNCHANGED <<rumble, gpio, now, driving, last, upl, pc, keep_running, hat,
                   revents, sent_event, reads, device, handles, exit_cause, iter>>

\* update_hat on the bitmask of the query
HatSample ==
    /\ probe.fn = "hat_pending"
    /\ LET res == update_hat(hat, probe.buttons)
       IN  /\ hat' = res.hat
           /\ probe' = [probe EXCEPT !.fn = "hat", !.events = res.events,
                                     !.dirty = res.dirty]
    /\ UNCHANGED <<rumble, gpio, now, driving, last, upl, pc, keep_running, pads,
                   revents, sent_event, reads, device, handles, exit_cause, iter>>

NextPad ==
    \/ ButtonsSample
    \/ ButtonsAgain
    \/ HatSample

SpecPad == InitPad /\ [][NextPad]_vars

-----------------------------------------------------------------------------
(* Claims about the effect manager, checked under Spec.                    *)

MotorOff == ~gpio.line /\ ~gpio.current_state

Idle == ~rumble.rumble_active

\* C1: an erase with an in-bounds id, issued while the playback is active and
\* the slot holds the effect driving the motor, returns with the slot Free,
\* the playback Idle and the rumble line driven off.
C1_EraseWhilePlaying ==
    (/\ last.op = "erase"
     /\ last.id \in SlotIds
     /\ last.pre_active
     /\ last.pre_driving = last.id)
    => (/\ last.ret = 0
        /\ ~rumble.slots[last.id].in_use
        /\ Idle
        /\ MotorOff)

C1_Witness ==
    /\ last.op = "erase"
    /\ last.id = 1
    /\ last.pre_active
    /\ last.pre_driving = 1
    /\ rumble.slots[0].in_use

\* C2 as claimed: after rumble_play_effect(id, 0), for every id (in use, Free
\* or out of bounds) and every prior state, the playback is Idle and the
\* motor is off.
C2_PlayZeroAlwaysStops ==
    (last.op = "play" /\ last.arg = 0) => (Idle /\ MotorOff)

\* C2 as amended: after rumble_play_effect(id, 0) for an id whose slot is in
\* use, whatever the prior state, the playback is Idle and the motor is off.
C2_PlayZeroStopsInUse ==
    (/\ last.op = "play"
     /\ last.arg = 0
     /\ last.id \in SlotIds
     /\ rumble.slots[IF last.id \in SlotIds THEN last.id ELSE 0].in_use)
    => (Idle /\ MotorOff)

C2_Witness ==
    /\ last.op = "play"
    /\ last.arg = 0
    /\ last.id = 1
    /\ rumble.slots[1].in_use
    /\ last.pre_active
    /\ last.pre_driving = 0

\* C7: a stored gain of 0 implies that the playback is Idle and the motor is
\* off, and rumble_apply_gain(g) always stores g.
C7_GainZeroMutes ==
    /\ rumble.gain = 0 => (Idle /\ MotorOff)
    /\ last.op = "gain" => rumble.gain = last.arg

C7_Witness ==
    /\ last.op = "gain"
    /\ last.arg = 0
    /\ last.pre_active
    /\ rumble.gain = 0

\* C10 as claimed: a successful upload that resolves to slot id, followed by
\* the erase of id, leaves the set of slots in use as it was before the
\* upload, also when the upload named an id that was already in use.
C10_UploadEraseRestoresPool ==
    (/\ last.op = "erase"
     /\ last.pre_upl.valid
     /\ last.pre_upl.id = last.id)
    => InUse(rumble) = last.pre_upl.before

\* C10 as amended: such an upload and erase leave slot id Free and every
\* other slot as it was before the upload, so the pool is as before the
\* upload exactly when slot id was Free before it; and the motor is stopped
\* if that effect was the active one.
C10_UploadEraseFreesSlot ==
    (/\ last.op = "erase"
     /\ last.pre_upl.valid
     /\ last.pre_upl.id = last.id)
    => (/\ last.ret = 0
        /\ InUse(rumble) = last.pre_upl.before \ {last.id}
        /\ (last.id \notin last.pre_upl.before
                => InUse(rumble) = last.pre_upl.before)
        /\ (last.pre_active /\ last.pre_driving = last.id) => (Idle /\ MotorOff))

C10_Witness ==
    /\ last.op = "erase"
    /\ last.pre_upl.valid
    /\ last.pre_upl.id = last.id
    /\ last.id \in last.pre_upl.before
    /\ last.pre_active
    /\ last.pre_driving = last.id

-----------------------------------------------------------------------------
(* Claims about deadlines, checked under SpecTime.                         *)

\* a is strictly earlier than b, for normalised timespecs
Earlier(a, b) ==
    \/ a.tv_sec < b.tv_sec
    \/ a.tv_sec = b.tv_sec /\ a.tv_nsec < b.tv_nsec

\* C8: a tick while Playing goes Idle and turns the motor off if and only if
\* now >= the stop deadline, the instant of the deadline included; a tick
\* before the deadline leaves playback, deadline and motor as they are; a
\* tick while Idle changes nothing.
C8_TickAtDeadline ==
    [][last'.op = "tick" =>
        IF rumble.rumble_active /\ ~Earlier(now, rumble.stop_time)
        THEN /\ ~rumble'.rumble_active
             /\ ~gpio'.line
             /\ ~gpio'.current_state
        ELSE /\ rumble' = rumble
             /\ gpio' = gpio
             /\ rumble.rumble_active => gpio'.line]_vars

C8_Witness ==
    /\ last.op = "tick"
    /\ last.pre_active
    /\ now = rumble.stop_time
    /\ now.tv_nsec > 0
    /\ Idle
    /\ MotorOff

\* t + length * r milliseconds, with the product taken in the integers
ExactDeadline(t, length, r) ==
    LET part == length * (r % 1000)
        sec == t.tv_sec + length * (r \div 1000) + part \div 1000
        nsec == t.tv_nsec + (part % 1000) * 1000000
    IN  IF nsec >= NSEC_PER_SEC
        THEN Timespec(sec + 1, nsec - NSEC_PER_SEC)
        ELSE Timespec(sec, nsec)

\* C9: for a slot in use, a repeat # 0 and an effective magnitude > 0,
\* rumble_play_effect turns the motor on, sets the playback active and sets
\* the stop deadline to exactly now + replay.length * r milliseconds, r being
\* repeat when repeat > 0 and 1 when repeat < 0.
C9_DeadlineIsExact ==
    (/\ last.op = "play"
     /\ last.arg # 0
     /\ rumble.slots[last.id].in_use
     /\ EffectiveMagnitude(rumble.slots[last.id], rumble.gain) > 0)
    => (/\ rumble.rumble_active
        /\ gpio.line
        /\ rumble.stop_time =
              ExactDeadline(now, rumble.slots[last.id].length,
                            IF last.arg > 0 THEN last.arg ELSE 1))

-----------------------------------------------------------------------------
(* Claims about the main loop, checked under SpecLoop.  iter describes the *)
(* iteration in progress, or the last one finished when pc is "loop".      *)

Channels == {SIDE_LEFT, SIDE_RIGHT, "uinput"}

\* an iteration has run to its end (rumble_tick is in every iteration's log)
IterationDone == pc \in {"loop", "exited"} /\ iter.log # << >>

IsInputEvent(e) == e.type \in {"EV_ABS", "EV_KEY"}

InputEvents(log) == {i \in 1..Len(log) : IsInputEvent(log[i])}

SyncEvents(log) == {i \in 1..Len(log) : log[i] = SynReport}

TickCalls(log) == {i \in 1..Len(log) : log[i].type = "TICK"}

\* C3: an iteration that starts with a side Disconnected (descriptor
\* invalid after a failed reopen) makes a reconnect attempt for that side.
C3_ReconnectEveryIteration ==
    IterationDone => iter.down \subseteq iter.reopened

\* C4: the loop is left only with the termination flag set or on a failure
\* of poll, never on a read error or a failed reopen; and in every finished
\* iteration each channel poll reported readable was serviced, also when a
\* side was Disconnected at the start of the iteration, and rumble_tick ran.
C4_TransportErrorsNotFatal ==
    /\ pc = "exited" =>
          /\ exit_cause \in {"signal", "poll"}
          /\ exit_cause = "signal" => keep_running = 0
    /\ pc # "exited" => exit_cause = "none" /\ device = "created"
    /\ IterationDone =>
          /\ \A c \in Channels : revents[c] => c \in iter.serviced
          /\ TickCalls(iter.log) # {}

C4_Witness ==
    /\ pc = "loop"
    /\ keep_running = 1
    /\ iter.log # << >>
    /\ iter.down = {SIDE_LEFT}
    /\ pads[SIDE_LEFT].fd < 0
    /\ revents[SIDE_RIGHT]
    /\ SIDE_RIGHT \in iter.reopened
    /\ pads[SIDE_RIGHT].fd < 0
    /\ revents.uinput
    /\ iter.serviced = {SIDE_RIGHT, "uinput"}

\* C5: a finished iteration's log holds exactly one SYN_REPORT if it holds
\* an axis, button or hat event, and none otherwise; the SYN_REPORT is the
\* last entry, after every such event (those before a read error included)
\* and after rumble_tick; no SYN_REPORT is written before the end.
C5_OneSyncPerIteration ==
    /\ IterationDone =>
          LET log == iter.log
          IN  /\ Cardinality(TickCalls(log)) = 1
              /\ IF InputEvents(log) # {}
                 THEN /\ SyncEvents(log) = {Len(log)}
                      /\ \A i \in InputEvents(log) \cup TickCalls(log) : i < Len(log)
                 ELSE SyncEvents(log) = {}
    /\ pc \notin {"loop", "exited"} => SyncEvents(iter.log) = {}

C5_Witness ==
    /\ pc = "loop"
    /\ iter.reopened = {SIDE_LEFT}
    /\ ~revents[SIDE_RIGHT]
    /\ InputEvents(iter.log) # {}
    /\ iter.log[Len(iter.log)] = SynReport

\* C6: after any exit from the main loop the virtual device is destroyed,
\* no transport handle is open and the rumble line is driven off, whatever
\* the playback state was.
C6_ShutdownMotorOff ==
    pc = "exited" =>
        /\ device = "destroyed"
        /\ handles = {}
        /\ MotorOff

C6_Witness ==
    /\ pc = "exited"
    /\ exit_cause = "signal"
    /\ rumble.rumble_active
    /\ handles = {}
    /\ MotorOff

-----------------------------------------------------------------------------
(* Claims about the calls of the effect manager, checked under Spec: what  *)
(* each call returns and leaves, from every state the engine can reach.    *)

\* the lowest-indexed Free slot of a pool that has one
LowestFree(r) ==
    CHOOSE k \in SlotIds \ InUse(r) : \A j \in SlotIds \ InUse(r) : k <= j

\* the slot an upload of e into slot k leaves there
Stored(k, e) ==
    [in_use |-> TRUE, id |-> k, strong |-> e.strong, weak |-> e.weak,
     length |-> e.length]

\* r2 differs from r1 in slot k at most
OnlySlotChanged(r1, r2, k) ==
    /\ \A j \in SlotIds \ {k} : r2.slots[j] = r1.slots[j]
    /\ r2.gain = r1.gain
    /\ r2.rumble_active = r1.rumble_active
    /\ r2.stop_time = r1.stop_time

C13_PlayStaleIdNoOp ==
    \A id \in PlayIds, repeat \in PlayRepeats :
        (id \notin SlotIds \/ ~rumble.slots[IF id \in SlotIds THEN id ELSE 0].in_use) =>
            LET res == rumble_play_effect(rumble, gpio, now, id, repeat)
            IN  res.r = rumble /\ res.g = gpio

C13_Witness ==
    /\ last.op = "play"
    /\ last.id = 1
    /\ last.arg = 0
    /\ ~rumble.slots[1].in_use
    /\ rumble.slots[1].strong = 0
    /\ rumble.slots[1].weak = 1
    /\ last.pre_active
    /\ rumble.rumble_active
    /\ gpio.line

\* a step in which gpio_set_rumble wrote the rumble line
Wrote == gpio'.writes # gpio.writes

\* every write changes the value of the line, which starts off: the writes
\* alternate on, off, on, ...
WritesAlternate == Wrote => (gpio'.line # gpio.line /\ gpio'.line = gpio'.current_state)

\* C14 as claimed: every physical write changes the line (so the writes
\* alternate, starting with on), and no rumble_play_effect call made while
\* the motor is on writes the line.
C14_PlayWhileOnNeverWrites ==
    [][/\ WritesAlternate
       /\ (last'.op = "play" /\ gpio.line) => ~Wrote]_vars

\* C14 as amended: every physical write changes the line; a
\* rumble_play_effect call made while the motor is on writes nothing when it
\* leaves the playback active (a restart, or a stale id), and writes off
\* once when it stops the playback (repeat 0 or effective magnitude 0).
C14_WritesOnlyOnChange ==
    [][/\ WritesAlternate
       /\ (last'.op = "play" /\ gpio.line) =>
             IF rumble'.rumble_active
             THEN ~Wrote /\ gpio'.line
             ELSE Wrote /\ ~gpio'.line]_vars

C14_Witness ==
    /\ last.op = "play"
    /\ last.arg = 1
    /\ last.id = 1
    /\ last.pre_active
    /\ last.pre_driving = 0
    /\ driving = 1
    /\ gpio.line
    /\ gpio.writes = 1

-----------------------------------------------------------------------------
(* Claims about the axis mapper, checked under SpecMap.  probe holds the   *)
(* sample, the calibration and, once fn is "map", the value returned.      *)

Mapped == probe.fn = "map"

\* the calibration and deadzone of set_default_calibration
DefaultQuery ==
    /\ probe.min = DefaultCalibration.x_min
    /\ probe.max = DefaultCalibration.x_max
    /\ probe.zero = DefaultCalibration.x_zero
    /\ probe.deadzone = DefaultCalibration.deadzone

\* C15 as claimed: with min 0, max 4095, zero 2048, deadzone 1024 (invert
\* false) the mapper returns 0 for raw 2048, 32767 for raw 4095 and 0 for
\* raw 3048.
C15_ScenarioValues ==
    (Mapped /\ DefaultQuery /\ ~probe.invert) =>
        /\ probe.raw = 2048 => probe.out = 0
        /\ probe.raw = 4095 => probe.out = 32767
        /\ probe.raw = 3048 => probe.out = 0

\* C15 as amended: with that calibration the mapper returns 0 for raw 2048,
\* 32767 for raw 4095 and 16007 for raw 3048 (0, -32767 and -16007 with
\* invert true, as update_axes calls it); the deadzone is compared with the
\* scaled value, so the samples mapped to 0 are those within 63 of 2048.
C15_ScenarioValuesScaled ==
    (Mapped /\ DefaultQuery) =>
        /\ probe.raw = 2048 => probe.out = 0
        /\ probe.raw = 4095 => probe.out = (IF probe.invert THEN -32767 ELSE 32767)
        /\ probe.raw = 3048 => probe.out = (IF probe.invert THEN -16007 ELSE 16007)
        /\ probe.out = 0 <=> Abs(probe.raw - 2048) <= 63

C15_Witness ==
    /\ Mapped
    /\ DefaultQuery
    /\ ~probe.invert
    /\ probe.raw = 3048
    /\ probe.out = 16007

\* a calibration with max - zero = zero - min # 0, and a sample zero + d
\* whose mirror image zero - d is a uint16 too
SymmetricQuery ==
    /\ ~probe.invert
    /\ probe.max - probe.zero = probe.zero - probe.min
    /\ probe.max # probe.zero
    /\ probe.raw >= probe.zero
    /\ 2 * probe.zero - probe.raw >= 0

\* the value the mapper returns for the mirror image of the sample
MirrorOut ==
    map_adc_to_axis(2 * probe.zero - probe.raw, probe.min, probe.max, probe.zero,
                    probe.deadzone, probe.invert)

ActiveRange ==
    IF probe.raw >= probe.zero
    THEN probe.max - probe.zero
    ELSE probe.zero - probe.min

\* C17: for every sample, calibration, deadzone and invert the value
\* returned lies in [-32768, 32767], and it is 0 when the active half-range
\* is 0.
C17_ResultInRange ==
    Mapped =>
        /\ probe.out \in AXIS_MIN..AXIS_MAX
        /\ ActiveRange = 0 => probe.out = 0

C17_Witness ==
    /\ Mapped
    /\ probe.invert
    /\ probe.raw < probe.min
    /\ probe.min < probe.zero
    /\ probe.deadzone = 1
    /\ ScaledRound(probe.raw - probe.zero, ActiveRange) = AXIS_MIN
    /\ probe.out = AXIS_MAX

\* the scaled value: rounded and, with invert, negated
ScaledValue ==
    IF probe.invert
    THEN -ScaledRound(probe.raw - probe.zero, ActiveRange)
    ELSE ScaledRound(probe.raw - probe.zero, ActiveRange)

\* C18: with dz the configured deadzone, 1024 in its place when it is 0, and
\* 32767 when it is larger, the mapper returns 0 when |scaled value| < dz and
\* the scaled value, clamped to [-32768, 32767], otherwise; in particular a
\* configured deadzone of 0 zeroes every scaled value below 1024.
C18_DeadzoneOnScaledValue ==
    (Mapped /\ ActiveRange # 0) =>
        LET dz == IF probe.deadzone = 0 THEN 1024
                  ELSE IF probe.deadzone > 32767 THEN 32767
                  ELSE probe.deadzone
        IN  IF Abs(ScaledValue) < dz
            THEN probe.out = 0
            ELSE /\ probe.out # 0
                 /\ probe.out = (IF ScaledValue > 32767 THEN 32767 ELSE ScaledValue)

C18_Witness ==
    /\ Mapped
    /\ ActiveRange # 0
    /\ probe.deadzone = 0
    /\ Abs(ScaledValue) \in 1..1023
    /\ probe.out = 0

-----------------------------------------------------------------------------
(* Claims about the button and hat functions, checked under SpecPad.       *)

\* C19: update_buttons emits nothing when the bitmask equals the stored one;
\* after any call the stored bitmask is the one it was given, so a second
\* call with the same bitmask emits nothing and reports no change.
C19_NoDoubleEmission ==
    /\ probe.fn \in {"buttons", "buttons_again"} =>
          pads[probe.side].last_buttons = probe.cur
    /\ (probe.fn = "buttons" /\ probe.prev = probe.cur) =>
          (probe.events = << >> /\ ~probe.dirty)
    /\ probe.fn = "buttons_again" => (probe.events = << >> /\ ~probe.dirty)

C19_Witness ==
    /\ probe.fn = "buttons_again"
    /\ probe.side = SIDE_LEFT
    /\ probe.prev = 1
    /\ probe.cur = 130
    /\ probe.first = << Event("EV_KEY", "BTN_TL", 0), Event("EV_KEY", "BTN_TL2", 1),
                        Event("EV_KEY", "BTN_MODE", 1) >>
    /\ probe.events = << >>

\* bit (one of 4, 8, 16, 32) is set in the bitmask of the query
HatBit(bit) == (probe.buttons \div bit) % 2 = 1

\* the entries of the events of the query that carry the given code
EventsOf(code) == {i \in 1..Len(probe.events) : probe.events[i].code = code}

\* C20: update_hat stores x = -1 if bit 0x08 is set, else +1 if bit 0x10 is
\* set, else 0, and y = -1 if bit 0x04 is set, else +1 if bit 0x20 is set,
\* else 0; it emits one EV_ABS event per axis whose value differs from the
\* stored one, carrying the new value, and nothing else.
C20_HatSynthesis ==
    probe.fn = "hat" =>
        /\ hat.x \in HatValues /\ hat.y \in HatValues
        /\ hat.x = -1 <=> HatBit(8)
        /\ hat.x = 1 <=> (HatBit(16) /\ ~HatBit(8))
        /\ hat.y = -1 <=> HatBit(4)
        /\ hat.y = 1 <=> (HatBit(32) /\ ~HatBit(4))
        /\ EventsOf("ABS_HAT0X") # {} <=> hat.x # probe.prev.x
        /\ EventsOf("ABS_HAT0Y") # {} <=> hat.y # probe.prev.y
        /\ Cardinality(EventsOf("ABS_HAT0X")) <= 1
        /\ Cardinality(EventsOf("ABS_HAT0Y")) <= 1
        /\ \A i \in 1..Len(probe.events) :
              /\ probe.events[i].type = "EV_ABS"
              /\ \/ probe.events[i].code = "ABS_HAT0X" /\ probe.events[i].value = hat.x
                 \/ probe.events[i].code = "ABS_HAT0Y" /\ probe.events[i].value = hat.y
        /\ probe.dirty <=> probe.events # << >>

C20_Witness ==
    /\ probe.fn = "hat"
    /\ probe.buttons = 60
    /\ probe.prev = [x |-> 1, y |-> -1]
    /\ hat = [x |-> -1, y |-> -1]
    /\ probe.events = << Event("EV_ABS", "ABS_HAT0X", -1) >>

-----------------------------------------------------------------------------
(* Claims about the expiry of a playback, checked under SpecQuietFair.    *)

\* the motor is on with a stop deadline the clock of the model reaches
Due ==
    /\ gpio.line
    /\ rumble.rumble_active
    /\ ~Earlier(Timespec(MaxSec, 0), rumble.stop_time)

\* C21: every iteration runs rumble_tick, and after it the playback is
\* active only if now is before the stop deadline, the motor being off
\* otherwise, whether or not any input was ready; so a motor that is on is
\* eventually turned off unless a new play request arrives.
C21_ExpiryByPolling ==
    /\ [](pc = "sync" =>
            /\ TickCalls(iter.log) # {}
            /\ rumble.rumble_active => Earlier(now, rumble.stop_time)
            /\ ~rumble.rumble_active => MotorOff)
    /\ [](Due => <>(~gpio.line \/ last.op = "play"))

C21_Witness ==
    /\ pc = "sync"
    /\ ~revents[SIDE_LEFT] /\ ~revents[SIDE_RIGHT] /\ ~revents.uinput
    /\ last.op = "tick"
    /\ last.pre_active
    /\ ~Earlier(now, rumble.stop_time)
    /\ ~rumble.rumble_active
    /\ MotorOff

-----------------------------------------------------------------------------
(* Claims about button diffing, checked under SpecPad.                     *)

\* the order of the masks in the table of a side
MaskOrder(side) == [i \in 1..Len(ButtonMap(side)) |-> ButtonMap(side)[i].mask]

\* the entries of the table of the side of the query whose bit differs
\* between the previous and the current bitmask, in table order
ChangedEntries ==
    LET Differs(e) == BitSet(probe.prev, e.mask) # BitSet(probe.cur, e.mask)
    IN  SelectSeq(ButtonMap(probe.side), Differs)

\* C22: for previous # current, update_buttons emits exactly one transition
\* per table bit that differs, in the order of the side's table (left 0x01,
\* 0x02, 0x80; right 0x10, 0x20, 0x04, 0x08, 0x01, 0x02, 0x40, 0x80), with
\* the value of the bit in current, and nothing for unchanged bits.
C22_OneTransitionPerChangedBit ==
    /\ MaskOrder(SIDE_LEFT) = << 1, 2, 128 >>
    /\ MaskOrder(SIDE_RIGHT) = << 16, 32, 4, 8, 1, 2, 64, 128 >>
    /\ (probe.fn = "buttons" /\ probe.prev # probe.cur) =>
          /\ Len(probe.first) = Len(ChangedEntries)
          /\ \A i \in 1..Len(ChangedEntries) :
                probe.first[i] =
                   Event("EV_KEY", ChangedEntries[i].code,
                         IF BitSet(probe.cur, ChangedEntries[i].mask) THEN 1 ELSE 0)
          /\ probe.dirty = (ChangedEntries # << >>)

C22_Witness ==
    /\ probe.fn = "buttons"
    /\ probe.side = SIDE_RIGHT
    /\ probe.prev = 17
    /\ probe.cur = 161
    /\ probe.first = << Event("EV_KEY", "BTN_SOUTH", 0), Event("EV_KEY", "BTN_EAST", 1),
                        Event("EV_KEY", "BTN_START", 1) >>

-----------------------------------------------------------------------------
(* Claims about the order of the events of one iteration, under SpecLoop.  *)

\* the side whose packet an input event of the log comes from: the hat is
\* synthesised from left packets only
EventSide(e) ==
    IF e.code \in {AxisCodes(SIDE_LEFT).x, AxisCodes(SIDE_LEFT).y} \cup HatCodes
                  \cup ButtonCodes(SIDE_LEFT)
    THEN SIDE_LEFT
    ELSE IF e.code \in {AxisCodes(SIDE_RIGHT).x, AxisCodes(SIDE_RIGHT).y}
                       \cup ButtonCodes(SIDE_RIGHT)
         THEN SIDE_RIGHT
         ELSE "none"

\* the step of the processing of a packet that emits the event
EventStage(e) ==
    IF e.code \in HatCodes THEN 3 ELSE IF e.type = "EV_KEY" THEN 2 ELSE 1

\* the places of the log where an event of a side is followed by an event
\* of an earlier stage of that side: each one is the start of a new packet
PacketBreaks(log, side) ==
    {i \in 1..(Len(log) - 1) :
        /\ EventSide(log[i]) = side
        /\ EventSide(log[i + 1]) = side
        /\ EventStage(log[i]) > EventStage(log[i + 1])}

-----------------------------------------------------------------------------
(* Claims about the deadline set by rumble_play_effect, under SpecTime.    *)

\* the last call was a rumble_play_effect that reached lines 135-143: the
\* slot is in use, repeat # 0 and the effective magnitude is > 0
PlayStarted ==
    /\ last.op = "play"
    /\ last.arg # 0
    /\ last.id \in SlotIds
    /\ rumble.slots[last.id].in_use
    /\ EffectiveMagnitude(rumble.slots[last.id], rumble.gain) > 0

\* C24: when rumble_play_effect leaves playback active, the stop deadline it
\* has just set is strictly after the time of the call, whatever the
\* replay.length of the uploaded effect and the non-zero repeat count.
C24_DeadlineInFuture ==
    (PlayStarted /\ rumble.rumble_active) => Earlier(now, rumble.stop_time)

-----------------------------------------------------------------------------
(* Claims about the rumble line and the playback state, under Spec.        *)

\* C25: while the main loop runs, after any sequence of upload, erase, play,
\* gain and tick calls, accepted or rejected, the last value requested of
\* gpio_set_rumble (and the value of the line) is on if and only if
\* rumble_active is true; so it is off in the initial state, where
\* rumble_state_init has left the playback Idle, and never on while Idle.
C25_LineFollowsPlayback ==
    pc # "exited" =>
       /\ gpio.current_state = rumble.rumble_active
       /\ gpio.line = rumble.rumble_active
       /\ Idle => MotorOff

C25_Witness ==
    /\ last.op = "erase"
    /\ last.ret # 0
    /\ rumble.rumble_active
    /\ gpio.current_state
    /\ gpio.line

\* C26: an erase with an in-bounds id other than the slot whose effect is
\* driving the motor (Uploaded and not playing, or Free, never-uploaded
\* slot 0 included) changes the in_use flag of that slot and nothing else:
\* playback state, stop deadline and motor are as before.
C26_EraseElsewhereKeepsPlayback ==
    [][(/\ last'.op = "erase"
        /\ last'.id \in SlotIds
        /\ driving # last'.id)
       => (/\ rumble' = [rumble EXCEPT !.slots[last'.id].in_use = FALSE]
           /\ gpio' = gpio)]_vars

-----------------------------------------------------------------------------
(* Claims about the values the device holds, under SpecLoop.               *)

\* the value the controller has stored for a code: last_x and last_y of the
\* side, hat_x and hat_y, the bit of last_buttons the table gives the code
StoredValue(code) ==
    IF code = AxisCodes(SIDE_LEFT).x THEN pads[SIDE_LEFT].last_x
    ELSE IF code = AxisCodes(SIDE_LEFT).y THEN pads[SIDE_LEFT].last_y
    ELSE IF code = AxisCodes(SIDE_RIGHT).x THEN pads[SIDE_RIGHT].last_x
    ELSE IF code = AxisCodes(SIDE_RIGHT).y THEN pads[SIDE_RIGHT].last_y
    ELSE IF code = "ABS_HAT0X" THEN hat.x
    ELSE IF code = "ABS_HAT0Y" THEN hat.y
    ELSE LET side == IF code \in ButtonCodes(SIDE_LEFT) THEN SIDE_LEFT ELSE SIDE_RIGHT
             map == ButtonMap(side)
             entry == CHOOSE i \in 1..Len(map) : map[i].code = code
         IN  IF BitSet(pads[side].last_buttons, map[entry].mask) THEN 1 ELSE 0

\* what is stored of the input state: all but descriptors and calibration
StoredState ==
    <<[s \in Sides |-> <<pads[s].last_x, pads[s].last_y, pads[s].last_buttons>>], hat>>

\* C27: after priming and after any packets, read errors and reconnects the
\* last value delivered for every axis, hat axis and mapped button is the
\* stored one; an event is emitted only with a value that differs from the
\* last one delivered for its code; a read error with its reconnect emits
\* nothing and leaves the stored state as it is.
C27_SinkAgreesWithStored ==
    /\ [](\A code \in SinkCodes : iter.sink[code] = StoredValue(code))
    /\ [][\A i \in (Len(iter.log) + 1)..Len(iter'.log) :
            pc \in Sides =>
               /\ iter'.log[i].code \in SinkCodes
               /\ iter'.log[i].value # iter.sink[iter'.log[i].code]]_vars
    /\ [][(iter'.reopened # iter.reopened /\ pc \in Sides) =>
            /\ iter'.log = iter.log
            /\ iter'.sink = iter.sink
            /\ StoredState' = StoredState]_vars

C27_Witness ==
    /\ SIDE_LEFT \in iter.reopened
    /\ pads[SIDE_LEFT].fd < 0
    /\ pads[SIDE_LEFT].last_x # 0
    /\ iter.sink["ABS_X"] = pads[SIDE_LEFT].last_x
    /\ iter.sink["BTN_TL"] = 1
    /\ iter.sink["ABS_HAT0X"] = 0

-----------------------------------------------------------------------------
(* Claims about a play during a playback, under SpecTime.                  *)

\* C28: a rumble_play_effect that starts playback while a playback is
\* active replaces the single stop deadline by now + length * r
\* milliseconds of the new play (r the repeat count, 1 for a negative one),
\* whatever the deadline was: it neither extends it nor keeps the later one.
C28_PlayReplacesDeadline ==
    [][(rumble.rumble_active /\ PlayStarted')
       => (/\ rumble'.rumble_active
           /\ rumble'.stop_time =
                 ExactDeadline(now, rumble.slots[last'.id].length,
                               IF last'.arg > 0 THEN last'.arg ELSE 1))]_vars

=============================================================================
